---- MODULE Spec2Model ----
(***************************************************************************)
(* Model of the wapuugotchi feed repository: the State Checker             *)
(* (scripts/check_wordpress.py) and the Feed Builder                       *)
(* (scripts/build_feed.py), which communicate through the JSON files       *)
(* data/state.json, data/entries.json, data/site.json and write feed.xml.  *)
(*                                                                         *)
(* Representation.  Python dicts are TLA+ functions whose DOMAIN is the    *)
(* set of keys present, so dict.get(key, default) is Get below.  Text      *)
(* whose characters the code never inspects (versions, ids, titles,        *)
(* links) is a TLA+ string.  Text whose characters the code does inspect   *)
(* (created_at, the rendered dates) is a sequence of one-character         *)
(* strings, so that endswith, replace, fromisoformat and the string        *)
(* comparison done by sorted() are computed character by character.        *)
(***************************************************************************)
EXTENDS Integers, Sequences, FiniteSets, TLC

VARIABLES stateFile, entriesFile, siteFile, feedFile, clock, last, lost, runs

vars == <<stateFile, entriesFile, siteFile, feedFile, clock, last, lost, runs>>

(***************************************************************************)
(* Bounds of the model.                                                    *)
(***************************************************************************)
\* number of program runs (State Checker or Feed Builder) in a behaviour
MaxRuns == 3
\* number of hours the wall clock may advance
MaxClock == 1
\* length of the entry lists the Feed Builder is started on
MaxFeedEntries == 3

(***************************************************************************)
(* Python values.                                                          *)
(***************************************************************************)
\* Python's None.  It is a string no version, link or title of the model
\* equals, so comparing it with a string is the inequality Python computes.
None == "<None>"

\* the empty dict {}
EmptyDict == [k \in {} |-> None]

\* dict.get(key, default)
Get(d, key, default) == IF key \in DOMAIN d THEN d[key] ELSE default

\* truth value of a str-or-None value: `not v` holds for None and for ""
Falsy(v) == v = None \/ v = ""

(***************************************************************************)
(* Character sequences.                                                    *)
(***************************************************************************)
\* The characters the created_at texts of the model use, in code point order: Python
\* compares str values code point by code point, and Ord is order
\* isomorphic to ord() on this alphabet.
Alphabet ==
    << "+", "-", "0", "1", "2", "3", "4", "5", "6", "7", "8", "9", ":",
       "T", "Z", "a", "d", "e", "n", "o", "t" >>

Ord(c) == CHOOSE i \in 1..Len(Alphabet) : Alphabet[i] = c

Digits == << "0", "1", "2", "3", "4", "5", "6", "7", "8", "9" >>

IsDigit(c) == \E i \in 1..10 : Digits[i] = c

DigitVal(c) == (CHOOSE i \in 1..10 : Digits[i] = c) - 1

\* str < str, as Python computes it
RECURSIVE StrLess(_, _)
StrLess(a, b) ==
    IF b = << >> THEN FALSE
    ELSE IF a = << >> THEN TRUE
    ELSE IF a[1] # b[1] THEN Ord(a[1]) < Ord(b[1])
    ELSE StrLess(Tail(a), Tail(b))

\* str.endswith(suffix)
EndsWith(s, suffix) ==
    /\ Len(s) >= Len(suffix)
    /\ SubSeq(s, Len(s) - Len(suffix) + 1, Len(s)) = suffix

\* str.replace(old, new): every non-overlapping occurrence, left to right
RECURSIVE Replace(_, _, _)
Replace(s, old, new) ==
    IF Len(s) < Len(old) THEN s
    ELSE IF SubSeq(s, 1, Len(old)) = old
         THEN new \o Replace(SubSeq(s, Len(old) + 1, Len(s)), old, new)
         ELSE << s[1] >> \o Replace(Tail(s), old, new)

\* "%02d" and "%04d"
Pad2(n) == << Digits[((n \div 10) % 10) + 1], Digits[(n % 10) + 1] >>

Pad4(n) == Pad2(n \div 100) \o Pad2(n % 100)

\* the value of the digits s[i..j]
RECURSIVE Num(_, _, _)
Num(s, i, j) == IF i > j THEN 0 ELSE 10 * Num(s, i, j - 1) + DigitVal(s[j])

AllDigits(s, i, j) == \A k \in i..j : IsDigit(s[k])

(***************************************************************************)
(* datetime.                                                               *)
(***************************************************************************)
IsLeap(y) == (y % 4 = 0 /\ y % 100 # 0) \/ y % 400 = 0

DaysInMonth(y, m) ==
    IF m = 2 THEN (IF IsLeap(y) THEN 29 ELSE 28)
    ELSE IF m \in {4, 6, 9, 11} THEN 30 ELSE 31

\* days from 1970-01-01 to the proleptic Gregorian date y-m-d
DaysFromCivil(y, m, d) ==
    LET yy  == IF m <= 2 THEN y - 1 ELSE y
        era == yy \div 400
        yoe == yy - era * 400
        mp  == (m + 9) % 12
        doy == (153 * mp + 2) \div 5 + d - 1
        doe == yoe * 365 + yoe \div 4 - yoe \div 100 + doy
    IN  era * 146097 + doe - 719468

\* datetime.weekday(): Monday is 0
Weekday(dt) == (DaysFromCivil(dt.year, dt.month, dt.day) + 3) % 7

\* the instant of an aware datetime, in seconds since the epoch; for a naive
\* datetime (utcoffset 0) the same number orders the wall clock fields
Instant(dt) ==
    DaysFromCivil(dt.year, dt.month, dt.day) * 86400
      + dt.hour * 3600 + dt.minute * 60 + dt.second - dt.utcoffset * 60

\* datetime.fromisoformat(value), for the forms YYYY-MM-DDTHH:MM:SS and
\* YYYY-MM-DDTHH:MM:SS(+|-)HH:MM; any other text raises ValueError.  The
\* result is [ok |-> FALSE] when it raises.  utcoffset is in minutes.
fromisoformat(s) ==
    LET shape ==
            /\ Len(s) \in {19, 25}
            /\ AllDigits(s, 1, 4) /\ s[5] = "-" /\ AllDigits(s, 6, 7)
            /\ s[8] = "-" /\ AllDigits(s, 9, 10) /\ s[11] = "T"
            /\ AllDigits(s, 12, 13) /\ s[14] = ":" /\ AllDigits(s, 15, 16)
            /\ s[17] = ":" /\ AllDigits(s, 18, 19)
            /\ Len(s) = 25 =>
                 /\ s[20] \in {"+", "-"}
                 /\ AllDigits(s, 21, 22) /\ s[23] = ":" /\ AllDigits(s, 24, 25)
        y  == Num(s, 1, 4)
        mo == Num(s, 6, 7)
        d  == Num(s, 9, 10)
        h  == Num(s, 12, 13)
        mi == Num(s, 15, 16)
        se == Num(s, 18, 19)
        oh == Num(s, 21, 22)
        om == Num(s, 24, 25)
        off == (IF s[20] = "-" THEN -1 ELSE 1) * (oh * 60 + om)
    IN  IF ~shape THEN [ok |-> FALSE]
        ELSE IF ~(/\ y >= 1 /\ mo \in 1..12 /\ d \in 1..DaysInMonth(y, mo)
                  /\ h <= 23 /\ mi <= 59 /\ se <= 59)
             THEN [ok |-> FALSE]
        ELSE IF Len(s) = 25 /\ ~(oh <= 23 /\ om <= 59) THEN [ok |-> FALSE]
        ELSE [ok |-> TRUE,
              dt |-> [year |-> y, month |-> mo, day |-> d, hour |-> h,
                      minute |-> mi, second |-> se,
                      aware |-> Len(s) = 25,
                      utcoffset |-> IF Len(s) = 25 THEN off ELSE 0]]

\* datetime.isoformat() of a datetime without microseconds
isoformat(dt) ==
    LET a == IF dt.utcoffset < 0 THEN -dt.utcoffset ELSE dt.utcoffset
    IN  Pad4(dt.year) \o << "-" >> \o Pad2(dt.month) \o << "-" >> \o Pad2(dt.day)
          \o << "T" >> \o Pad2(dt.hour) \o << ":" >> \o Pad2(dt.minute)
          \o << ":" >> \o Pad2(dt.second)
          \o (IF dt.aware
              THEN << (IF dt.utcoffset < 0 THEN "-" ELSE "+") >>
                     \o Pad2(a \div 60) \o << ":" >> \o Pad2(a % 60)
              ELSE << >>)

DayNames ==
    << << "M", "o", "n" >>, << "T", "u", "e" >>, << "W", "e", "d" >>,
       << "T", "h", "u" >>, << "F", "r", "i" >>, << "S", "a", "t" >>,
       << "S", "u", "n" >> >>

MonthNames ==
    << << "J", "a", "n" >>, << "F", "e", "b" >>, << "M", "a", "r" >>,
       << "A", "p", "r" >>, << "M", "a", "y" >>, << "J", "u", "n" >>,
       << "J", "u", "l" >>, << "A", "u", "g" >>, << "S", "e", "p" >>,
       << "O", "c", "t" >>, << "N", "o", "v" >>, << "D", "e", "c" >> >>

\* email.utils.format_datetime(dt) of an aware datetime
format_datetime(dt) ==
    LET a == IF dt.utcoffset < 0 THEN -dt.utcoffset ELSE dt.utcoffset
    IN  DayNames[Weekday(dt) + 1] \o << ",", " " >> \o Pad2(dt.day) \o << " " >>
          \o MonthNames[dt.month] \o << " " >> \o Pad4(dt.year) \o << " " >>
          \o Pad2(dt.hour) \o << ":" >> \o Pad2(dt.minute) \o << ":" >>
          \o Pad2(dt.second) \o << " " >>
          \o << (IF dt.utcoffset < 0 THEN "-" ELSE "+") >>
          \o Pad2(a \div 60) \o Pad2(a % 60)

\* build_feed.parse_iso8601
parse_iso8601(value) ==
    IF EndsWith(value, << "Z" >>)
    THEN fromisoformat(Replace(value, << "Z" >>, << "+", "0", "0", ":", "0", "0" >>))
    ELSE fromisoformat(value)

\* build_feed.rfc2822
rfc2822(dt) ==
    IF ~dt.aware
    THEN format_datetime([dt EXCEPT !.aware = TRUE, !.utcoffset = 0])
    ELSE format_datetime(dt)

\* datetime.now(timezone.utc).replace(microsecond=0) when the wall clock
\* stands `c` hours after 2024-05-01T11:00:00Z
utcnow(c) ==
    [year |-> 2024, month |-> 5, day |-> 1, hour |-> 11 + c, minute |-> 0,
     second |-> 0, aware |-> TRUE, utcoffset |-> 0]

\* check_wordpress.iso_now
iso_now(c) ==
    Replace(isoformat(utcnow(c)), << "+", "0", "0", ":", "0", "0" >>, << "Z" >>)

(***************************************************************************)
(* Files.  A file is [exists, content]; json.dump followed by json.load    *)
(* returns the dicts, lists, strings and None of the model unchanged.      *)
(***************************************************************************)
NoFile == [exists |-> FALSE]

File(payload) == [exists |-> TRUE, content |-> payload]

\* load_json(path, default), the same in both scripts
load_json(file, default) == IF ~file.exists THEN default ELSE file.content

\* save_json(path, payload) on the pair of files the State Checker writes
save_json(fs, path, payload) == [fs EXCEPT ![path] = File(payload)]

(***************************************************************************)
(* The version-check endpoint.                                             *)
(***************************************************************************)
\* JSON values as json.loads returns them, tagged with their Python type
JNull == [t |-> "NoneType"]

JStr(s) == [t |-> "str", str |-> s]

JList(items) == [t |-> "list", items |-> items]

JDict(map) == [t |-> "dict", map |-> map]

\* truth value of a parsed JSON value
JFalsy(j) ==
    \/ j.t = "NoneType"
    \/ j.t = "str" /\ j.str = ""
    \/ j.t = "list" /\ j.items = << >>
    \/ j.t = "dict" /\ DOMAIN j.map = {}

\* the version strings the endpoint may offer
Versions == {"6.3", "6.4"}

Offer(v) == JDict([version |-> JStr(v)])

\* What one request may produce: no response (timeout, transport error), a
\* body that is not JSON, or a JSON document.
Responses ==
    {[kind |-> "timeout"], [kind |-> "transport"], [kind |-> "notjson"]}
      \cup
    {[kind |-> "json", data |-> d] :
       d \in {JDict([offers |-> JList(<< Offer(v) >>)]) : v \in Versions \cup {""}}
               \cup
             {JDict([offers |-> JList(<< Offer("6.4"), Offer("6.3") >>)]),
              JDict(EmptyDict),
              JDict([offers |-> JList(<< >>)]),
              JDict([offers |-> JNull]),
              JDict([offers |-> JList(<< JDict(EmptyDict) >>)]),
              JDict([offers |-> JList(<< JDict([version |-> JNull]) >>)]),
              JDict([offers |-> JList(<< JStr("6.4") >>)]),
              JDict([offers |-> JStr("6.4")]),
              JDict([offers |-> JDict([version |-> JStr("6.4")])]),
              JList(<< >>),
              JList(<< Offer("6.4") >>),
              JStr("6.4"),
              JNull}}

NoResponse == [kind |-> "none"]

Raised == [raised |-> TRUE, value |-> None]

Returned(v) == [raised |-> FALSE, value |-> v]

\* fetch_latest_version, lines 35-38, on the parsed document: the
\* AttributeError of .get on a value that is no dict and the KeyError or
\* AttributeError of offers[0] on a dict or str propagate.
first_offer_version(data) ==
    IF data.t # "dict" THEN Raised
    ELSE LET offers == Get(data.map, "offers", JList(<< >>))
         IN  IF JFalsy(offers) THEN Returned(None)
             ELSE IF offers.t # "list" THEN Raised
             ELSE IF offers.items[1].t # "dict" THEN Raised
             ELSE LET version == Get(offers.items[1].map, "version", JNull)
                  IN  Returned(IF version.t = "NoneType" THEN None ELSE version.str)

\* a fetch that catches the failure of the request and reports no offers
fetch_latest_version_caught(resp) ==
    IF resp.kind # "json" THEN Returned(None)
    ELSE first_offer_version(resp.data)

\* fetch_latest_version(): the exception of urlopen (timeout, transport
\* error) or of json.loads (body that is not JSON) propagates.
fetch_latest_version(resp) ==
    IF resp.kind # "json" THEN Raised
    ELSE first_offer_version(resp.data)

(***************************************************************************)
(* State Checker.                                                          *)
(***************************************************************************)
\* a comparison that reads another key of state.json
same_version_other_key(state, latest) == Get(state, "latest", None) = latest

\* check_wordpress.main, line 50: the stored version equals the fetched one
same_version(state, latest) == Get(state, "wordpress_latest", None) = latest

\* an entry whose link is read from another key of site.json
new_entry_other_key(latest, site, c) ==
    [id         |-> "wordpress-" \o latest,
     title      |-> "WordPress " \o latest \o " verfuegbar",
     link       |-> Get(site, "url", ""),
     content    |-> "Neue WordPress Version " \o latest \o " wurde entdeckt.",
     created_at |-> iso_now(c)]

\* check_wordpress.main, lines 55-61
new_entry(latest, site, c) ==
    [id         |-> "wordpress-" \o latest,
     title      |-> "WordPress " \o latest \o " verfuegbar",
     link       |-> Get(site, "link", ""),
     content    |-> "Neue WordPress Version " \o latest \o " wurde entdeckt.",
     created_at |-> iso_now(c)]

\* the two writes in the other order
writes_entries_first(state, entries) ==
    << [path |-> "entries", payload |-> entries],
       [path |-> "state", payload |-> state] >>

\* check_wordpress.main, lines 64-65: the writes of a run that detected a
\* change, in the order the code performs them
writes(state, entries) ==
    << [path |-> "state", payload |-> state],
       [path |-> "entries", payload |-> entries] >>

\* the files after the first k of the writes ws
RECURSIVE perform(_, _, _)
perform(fs, ws, k) ==
    IF k = 0 THEN fs
    ELSE LET w == ws[k]
         IN  save_json(perform(fs, ws, k - 1), w.path, w.payload)

\* check_wordpress.main on the files fs = [state, entries] and site.json,
\* with the endpoint answering resp and the wall clock at c.  The process
\* ends after k of its writes: k = 2 is the complete run.
check_main(fs, siteF, resp, c, k) ==
    LET state   == load_json(fs.state, [wordpress_latest |-> None])
        entries == load_json(fs.entries, << >>)
        site    == load_json(siteF, EmptyDict)
        fetched == fetch_latest_version(resp)
        latest  == fetched.value
    IN  IF fetched.raised
        THEN [exit |-> "error", latest |-> None, fs |-> fs]
        ELSE IF Falsy(latest)
        THEN [exit |-> "ok", latest |-> latest, fs |-> fs]
        ELSE IF same_version(state, latest)
        THEN [exit |-> "ok", latest |-> latest, fs |-> fs]
        ELSE LET state2 == [key \in DOMAIN state \cup {"wordpress_latest"} |->
                              IF key = "wordpress_latest" THEN latest
                              ELSE state[key]]
                 entries2 == Append(entries, new_entry(latest, site, c))
                 ws == writes(state2, entries2)
             IN  [exit |-> IF k = Len(ws) THEN "ok" ELSE "crash",
                  latest |-> latest,
                  fs |-> perform(fs, ws, k)]

(***************************************************************************)
(* Feed Builder.                                                           *)
(***************************************************************************)
\* datetime > datetime: two aware values compare by instant, two naive
\* values by their fields, a naive and an aware value raise TypeError
Comparable(a, b) == a.aware = b.aware

Later(a, b) == Instant(a) > Instant(b)

\* build_feed.main, line 46: max(parse_iso8601(e["created_at"]) for e in
\* entries) over the first n entries.  max keeps the first of equal values.
RECURSIVE max_created_at(_, _)
max_created_at(entries, n) ==
    LET p == parse_iso8601(entries[n].created_at)
    IN  IF n = 1 THEN p
        ELSE LET m == max_created_at(entries, n - 1)
             IN  IF ~m.ok \/ ~p.ok THEN [ok |-> FALSE]
                 ELSE IF ~Comparable(p.dt, m.dt) THEN [ok |-> FALSE]
                 ELSE IF Later(p.dt, m.dt) THEN p ELSE m

\* sorted(): x is placed behind every element whose key is not less than
\* its own, so equal keys keep their order (reverse=True keeps stability)
RECURSIVE insert_desc(_, _)
insert_desc(sorted, x) ==
    IF sorted = << >> THEN << x >>
    ELSE IF StrLess(Head(sorted).created_at, x.created_at)
         THEN << x >> \o sorted
         ELSE << Head(sorted) >> \o insert_desc(Tail(sorted), x)

\* build_feed.main, line 49: sorted(entries, key=created_at, reverse=True)
RECURSIVE sort_entries(_, _)
sort_entries(entries, n) ==
    IF n = 0 THEN << >>
    ELSE insert_desc(sort_entries(entries, n - 1), entries[n])

\* build_feed.main, line 53
item_link(entry, site) == Get(entry, "link", Get(site, "link", ""))

\* build_feed.main, lines 51-59: the item of one entry
item(entry, site) ==
    [title       |-> Get(entry, "title", ""),
     link        |-> item_link(entry, site),
     guid        |-> Get(entry, "id", ""),
     isPermaLink |-> "false",
     pubDate     |-> rfc2822(parse_iso8601(entry.created_at).dt),
     description |-> Get(entry, "content", "")]

\* a channel whose description defaults like its title
channel_head_same_default(site) ==
    [title       |-> Get(site, "title", "Wapuugotchi RSS"),
     link        |-> Get(site, "link", ""),
     description |-> Get(site, "description", "Wapuugotchi RSS")]

\* build_feed.main, lines 41-43: title, link and description of the channel
channel_head(site) ==
    [title       |-> Get(site, "title", "Wapuugotchi RSS"),
     link        |-> Get(site, "link", ""),
     description |-> Get(site, "description", "")]

\* build_feed.main, lines 38-59: the channel element, or the exception of
\* an entry whose created_at does not parse or does not compare
render(site, entries) ==
    LET head   == channel_head(site)
        latest == max_created_at(entries, Len(entries))
        sorted == sort_entries(entries, Len(entries))
        items  == [i \in 1..Len(sorted) |-> item(sorted[i], site)]
    IN  IF entries = << >>
        THEN [ok |-> TRUE, sorted |-> << >>,
              channel |-> [title |-> head.title, link |-> head.link,
                           description |-> head.description,
                           items |-> << >>]]
        ELSE IF ~latest.ok
        THEN [ok |-> FALSE]
        ELSE IF \E i \in 1..Len(sorted) : ~parse_iso8601(sorted[i].created_at).ok
        THEN [ok |-> FALSE]
        ELSE [ok |-> TRUE, sorted |-> sorted,
              channel |-> [title |-> head.title, link |-> head.link,
                           description |-> head.description,
                           lastBuildDate |-> rfc2822(latest.dt),
                           items |-> items]]

\* a Feed Builder that opens feed.xml for writing before it builds the
\* tree: an exception leaves the file truncated
build_main_open_first(siteF, entriesF, feedF) ==
    LET site    == load_json(siteF, EmptyDict)
        entries == load_json(entriesF, << >>)
        tree    == render(site, entries)
    IN  IF ~tree.ok
        THEN [exit |-> "error", sorted |-> << >>, feedFile |-> File(EmptyDict)]
        ELSE [exit |-> "ok", sorted |-> tree.sorted,
              feedFile |-> File(tree.channel)]

\* build_feed.main: feed.xml is opened and written (line 62) after the
\* whole tree is built; an exception before that leaves the file alone.
build_main(siteF, entriesF, feedF) ==
    LET site    == load_json(siteF, EmptyDict)
        entries == load_json(entriesF, << >>)
        tree    == render(site, entries)
    IN  IF ~tree.ok
        THEN [exit |-> "error", sorted |-> << >>, feedFile |-> feedF]
        ELSE [exit |-> "ok", sorted |-> tree.sorted,
              feedFile |-> File(tree.channel)]

(***************************************************************************)
(* The system: the files on disk, the wall clock, and the record of the    *)
(* last program run.  `last` (the run's input, its exit, whether it wrote  *)
(* a file, and the order in which the items were emitted), `lost` (the     *)
(* versions for which an interrupted run stored the state without the      *)
(* entry) and `runs` are history variables; no program reads them.         *)
(***************************************************************************)
NoRun ==
    [op |-> "none", exit |-> "ok", resp |-> NoResponse, latest |-> None,
     wrote |-> FALSE, sorted |-> << >>]

\* the contents site.json is edited to
SiteFiles ==
    {NoFile,
     File(EmptyDict),
     File([title |-> "Wapuu", link |-> "https://wapuu.example/",
           description |-> "News"])}

Init ==
    /\ stateFile = NoFile
    /\ entriesFile = NoFile
    /\ siteFile = NoFile
    /\ feedFile = NoFile
    /\ clock = 0
    /\ last = NoRun
    /\ lost = {}
    /\ runs = 0

\* one complete run of the State Checker
CheckerRun ==
    /\ runs < MaxRuns
    /\ \E resp \in Responses :
         LET r == check_main([state |-> stateFile, entries |-> entriesFile],
                             siteFile, resp, clock, 2)
         IN  /\ stateFile' = r.fs.state
             /\ entriesFile' = r.fs.entries
             /\ last' = [op |-> "check", exit |-> r.exit, resp |-> resp,
                         latest |-> r.latest,
                         wrote |-> r.fs.state # stateFile \/ r.fs.entries # entriesFile,
                         sorted |-> << >>]
    /\ runs' = runs + 1
    /\ UNCHANGED <<siteFile, feedFile, clock, lost>>

\* a run of the State Checker that detected a change and whose process is
\* killed between its two writes
CheckerCrash ==
    /\ runs < MaxRuns
    /\ \E resp \in Responses :
         LET r == check_main([state |-> stateFile, entries |-> entriesFile],
                             siteFile, resp, clock, 1)
         IN  /\ r.exit = "crash"
             /\ stateFile' = r.fs.state
             /\ entriesFile' = r.fs.entries
             /\ last' = [op |-> "check", exit |-> r.exit, resp |-> resp,
                         latest |-> r.latest,
                         wrote |-> r.fs.state # stateFile \/ r.fs.entries # entriesFile,
                         sorted |-> << >>]
             /\ lost' = lost \cup {r.latest}
    /\ runs' = runs + 1
    /\ UNCHANGED <<siteFile, feedFile, clock>>

\* one run of the Feed Builder
BuildFeed ==
    /\ runs < MaxRuns
    /\ LET r == build_main(siteFile, entriesFile, feedFile)
       IN  /\ feedFile' = r.feedFile
           /\ last' = [op |-> "build", exit |-> r.exit, resp |-> NoResponse,
                       latest |-> None, wrote |-> r.exit = "ok",
                       sorted |-> r.sorted]
    /\ runs' = runs + 1
    /\ UNCHANGED <<stateFile, entriesFile, siteFile, clock, lost>>

\* a manual edit of site.json
EditSite ==
    /\ \E f \in SiteFiles : f # siteFile /\ siteFile' = f
    /\ UNCHANGED <<stateFile, entriesFile, feedFile, clock, last, lost, runs>>

\* the wall clock advances by an hour
Tick ==
    /\ clock < MaxClock
    /\ clock' = clock + 1
    /\ UNCHANGED <<stateFile, entriesFile, siteFile, feedFile, last, lost, runs>>

Next == CheckerRun \/ BuildFeed \/ EditSite \/ Tick

Spec == Init /\ [][Next]_vars

\* the same system when a State Checker process may be killed between its
\* two writes
CrashNext == CheckerRun \/ CheckerCrash \/ BuildFeed \/ EditSite \/ Tick

CrashSpec == Init /\ [][CrashNext]_vars

(***************************************************************************)
(* The Feed Builder on arbitrary input files.                              *)
(***************************************************************************)
Chars20(a, b, c) ==
    << "2", "0", "2", "4", "-", "0", "5", "-", "0", "1", "T" >> \o Pad2(a)
      \o << ":" >> \o Pad2(b) \o << ":" >> \o Pad2(c)

\* created_at values: UTC with the "Z" suffix, an explicit offset (the
\* instant 05:00Z), a naive value, and a text that is no timestamp
CreatedAtZ == Chars20(8, 0, 0) \o << "Z" >>

CreatedAtOffset == Chars20(10, 0, 0) \o << "+", "0", "5", ":", "0", "0" >>

CreatedAtNaive == Chars20(9, 0, 0)

CreatedAtBad == << "n", "o", "t", "-", "a", "-", "d", "a", "t", "e" >>

EntryPool ==
    {[id |-> "a", title |-> "A", content |-> "a", created_at |-> CreatedAtZ],
     [id |-> "b", title |-> "B", content |-> "b", created_at |-> CreatedAtOffset,
      link |-> ""],
     [id |-> "c", title |-> "C", content |-> "c", created_at |-> iso_now(0),
      link |-> "https://c.example/"],
     [id |-> "d", title |-> "D", content |-> "d", created_at |-> CreatedAtNaive,
      link |-> "https://d.example/"],
     [id |-> "e", title |-> "E", content |-> "e", created_at |-> CreatedAtBad,
      link |-> "https://e.example/"]}

EntryLists == UNION {[1..n -> EntryPool] : n \in 0..MaxFeedEntries}

\* a feed.xml left by an earlier run
OldFeed ==
    File([title |-> "Old", link |-> "", description |-> "", items |-> << >>])

FeedInit ==
    /\ stateFile = NoFile
    /\ entriesFile \in {NoFile} \cup {File(es) : es \in EntryLists}
    /\ siteFile \in SiteFiles
    /\ feedFile \in {NoFile, OldFeed}
    /\ clock = 0
    /\ last = NoRun
    /\ lost = {}
    /\ runs = 0

FeedNext == BuildFeed

FeedSpec == FeedInit /\ [][FeedNext]_vars

(***************************************************************************)
(* Properties.                                                             *)
(***************************************************************************)
\* what the files hold, as the loaders read them
StoredVersion ==
    Get(load_json(stateFile, [wordpress_latest |-> None]), "wordpress_latest", None)

Entries == load_json(entriesFile, << >>)

Site == load_json(siteFile, EmptyDict)

\* the step is a run of the State Checker, resp. of the Feed Builder
CheckStep == runs' = runs + 1 /\ last'.op = "check"

BuildStep == runs' = runs + 1 /\ last'.op = "build"

FilesUnchanged == stateFile' = stateFile /\ entriesFile' = entriesFile

\* C1: after any sequence of complete State Checker runs from absent files,
\* no two entries of entries.json have the same id.
C1_UniqueIds ==
    \A i, j \in 1..Len(Entries) : i # j => Entries[i].id # Entries[j].id

\* C2: a State Checker run whose fetched version equals the stored one
\* writes neither file, and so does a run that fetches the same version as
\* the complete run right before it.
C2_IdempotentNoOp ==
    [][CheckStep /\ last'.exit = "ok" =>
         /\ last'.latest = StoredVersion => FilesUnchanged
         /\ (last.op = "check" /\ last.exit = "ok" /\ last.latest = last'.latest)
              => FilesUnchanged]_vars

\* a run fetched a version, wrote nothing, and the stored version is the
\* fetched one while its entry is on file
C2_Witness ==
    /\ last.op = "check" /\ last.exit = "ok" /\ ~last.wrote
    /\ last.latest \in Versions /\ StoredVersion = last.latest
    /\ Len(Entries) = 1 /\ Entries[1].id = "wordpress-" \o last.latest

\* the effect C3 describes: one entry appended behind the unchanged old
\* ones, the stored version set, the id and link of the new entry
ChangeRecorded ==
    /\ Len(Entries') = Len(Entries) + 1
    /\ SubSeq(Entries', 1, Len(Entries)) = Entries
    /\ StoredVersion' = last'.latest
    /\ Entries'[Len(Entries')].id = "wordpress-" \o last'.latest
    /\ Entries'[Len(Entries')].link = Get(Site, "link", "")

\* C3 as stated: a run whose fetched version is present (not None) and
\* differs from the stored one appends exactly one entry, keeps the old
\* entries in place, stores the version, and the new entry has the id
\* "wordpress-" + version and the link of Site.
C3_Original ==
    [][(CheckStep /\ last'.exit = "ok" /\ last'.latest # None
          /\ last'.latest # StoredVersion) => ChangeRecorded]_vars

\* C3 amended: the same for a fetched version that is a non-empty string.
C3_ChangeRecorded ==
    [][(CheckStep /\ last'.exit = "ok" /\ ~Falsy(last'.latest)
          /\ last'.latest # StoredVersion) => ChangeRecorded]_vars

\* a second change was recorded behind the entry of the first, with the
\* link of a site.json that has one
C3_Witness ==
    /\ last.op = "check" /\ last.exit = "ok" /\ last.wrote
    /\ Len(Entries) = 2 /\ StoredVersion = last.latest
    /\ Entries[1].id # Entries[2].id
    /\ Entries[2].link = "https://wapuu.example/"

\* C4: a run whose fetch fails (timeout, transport error, body that is not
\* JSON) ends with an error and writes neither state.json nor entries.json.
C4_FetchFailureWritesNothing ==
    [][(CheckStep /\ last'.resp.kind \in {"timeout", "transport", "notjson"})
         => last'.exit = "error" /\ FilesUnchanged]_vars

\* a run failed on a body that is not JSON while both files held content
C4_Witness ==
    /\ last.op = "check" /\ last.resp.kind = "notjson" /\ last.exit = "error"
    /\ stateFile.exists /\ Len(Entries) = 1

\* the shapes C5 lists: top-level value no mapping, offers missing or
\* empty, first offer no mapping, first offer without a version
UnexpectedShape(d) ==
    \/ d.t # "dict"
    \/ /\ d.t = "dict"
       /\ \/ "offers" \notin DOMAIN d.map
          \/ /\ d.map.offers.t = "list"
             /\ \/ d.map.offers.items = << >>
                \/ d.map.offers.items[1].t # "dict"
                \/ /\ d.map.offers.items[1].t = "dict"
                   /\ "version" \notin DOMAIN d.map.offers.items[1].map

\* C5: a run whose response parses as JSON but has one of these shapes
\* ends normally, without an error, and writes neither file.
C5_UnexpectedShapeIsNoOp ==
    [][(CheckStep /\ last'.resp.kind = "json" /\ UnexpectedShape(last'.resp.data))
         => last'.exit = "ok" /\ FilesUnchanged]_vars

Unparseable(e) == ~parse_iso8601(e.created_at).ok

\* C6: when an entry of entries.json, at whatever position, has a
\* created_at that does not parse, the Feed Builder run ends with an error
\* and feed.xml is as before: unchanged if present, absent if absent.
C6_BadTimestampWritesNothing ==
    [][(BuildStep /\ \E i \in 1..Len(Entries) : Unparseable(Entries[i]))
         => last'.exit = "error" /\ feedFile' = feedFile]_vars

\* a run failed on a bad created_at in the last of three entries, and the
\* feed.xml of an earlier run is still there
C6_Witness ==
    /\ last.op = "build" /\ last.exit = "error"
    /\ Len(Entries) = 3 /\ Unparseable(Entries[3])
    /\ ~Unparseable(Entries[1]) /\ ~Unparseable(Entries[2])
    /\ feedFile = OldFeed

\* a created_at that parses and carries its UTC offset ("Z" or +hh:mm)
WellFormed(e) ==
    parse_iso8601(e.created_at).ok /\ parse_iso8601(e.created_at).dt.aware

CreatedInstant(e) == Instant(parse_iso8601(e.created_at).dt)

\* C7: on entries with well-formed created_at the Feed Builder emits one
\* item per entry, most recent first (an earlier item's instant is not
\* earlier than a later item's), and lastBuildDate is the instant of the
\* first item.
C7_MostRecentFirst ==
    [][(BuildStep /\ \A i \in 1..Len(Entries) : WellFormed(Entries[i])) =>
         /\ last'.exit = "ok"
         /\ feedFile'.exists
         /\ Len(feedFile'.content.items) = Len(Entries)
         /\ \A i \in 1..Len(Entries) :
              feedFile'.content.items[i] = item(last'.sorted[i], Site)
         /\ \A i, j \in 1..Len(Entries) :
              i < j => CreatedInstant(last'.sorted[i]) >= CreatedInstant(last'.sorted[j])
         /\ Entries # << >> =>
              feedFile'.content.lastBuildDate = feedFile'.content.items[1].pubDate]_vars

\* C8: the link of every rendered item is Entry.link when that is present
\* and non-empty, and Site.link when Entry.link is absent or empty.
C8_LinkFallback ==
    [][(BuildStep /\ last'.exit = "ok") =>
         \A i \in 1..Len(last'.sorted) :
           LET e == last'.sorted[i]
           IN  feedFile'.content.items[i].link =
                 IF "link" \in DOMAIN e /\ e.link # ""
                 THEN e.link ELSE Get(Site, "link", "")]_vars

FirstRun == BuildStep /\ ~siteFile.exists /\ ~entriesFile.exists

\* C9 as stated: with site.json and entries.json absent the Feed Builder
\* ends without error and writes a channel with empty title, link and
\* description, no item and no lastBuildDate.
C9_Original ==
    [][FirstRun =>
         /\ last'.exit = "ok"
         /\ feedFile' = File([title |-> "", link |-> "", description |-> "",
                              items |-> << >>])]_vars

\* C9 amended: the same, with the title "Wapuugotchi RSS".
C9_FirstRunFeed ==
    [][FirstRun =>
         /\ last'.exit = "ok"
         /\ feedFile' = File([title |-> "Wapuugotchi RSS", link |-> "",
                              description |-> "", items |-> << >>])]_vars

\* the Feed Builder ran on absent inputs and replaced an older feed.xml
C9_Witness ==
    /\ last.op = "build" /\ last.exit = "ok" /\ runs = 1
    /\ ~siteFile.exists /\ ~entriesFile.exists
    /\ feedFile.exists /\ feedFile # OldFeed

\* a run killed between its writes left the state updated and the entry
\* list as it was
LostNotification ==
    StoredVersion' = last'.latest /\ entriesFile' = entriesFile

\* C10 as stated: a run killed between its two writes leaves the state
\* updated without the entry, and every later run that fetches that
\* version writes nothing.
C10_Original ==
    [][/\ (CheckStep /\ last'.exit = "crash") => LostNotification
       /\ (CheckStep /\ last'.latest \in lost) => FilesUnchanged]_vars

\* C10 amended: a run killed between its two writes leaves the state
\* updated without the entry, and every later run that fetches that
\* version while state.json still holds it writes nothing.
C10_LostNotification ==
    [][/\ (CheckStep /\ last'.exit = "crash") => LostNotification
       /\ (CheckStep /\ last'.latest \in lost /\ StoredVersion = last'.latest)
            => FilesUnchanged]_vars

\* after a killed run, a complete run fetched the lost version and wrote
\* nothing: no entry carries that version
C10_Witness ==
    /\ last.op = "check" /\ last.exit = "ok" /\ ~last.wrote
    /\ last.latest \in lost /\ StoredVersion = last.latest
    /\ \A i \in 1..Len(Entries) : Entries[i].id # "wordpress-" \o last.latest

====
